---- MODULE Spec2Model ----
(***************************************************************************)
(* The pty-attached spawn sequence of src/src/command.rs: setup_pty,       *)
(* spawn_pty with its pre_exec closure, and the Child wrapper.  The parent *)
(* and the forked child each have a descriptor table; a descriptor number  *)
(* maps to the open file it denotes (a user file, the controlling side or  *)
(* the subordinate side of the pty of one spawn_pty call).                 *)
(***************************************************************************)
EXTENDS Integers, Sequences, FiniteSets, TLC

\* Size of a process's descriptor table (numbers 0 .. NumFds-1).
NumFds == 9
\* Number of spawn_pty calls in one behaviour.
MaxCalls == 2
\* Sizes a caller may pass are 1 .. MaxSize; 0 stands for None.
MaxSize == 1

VARIABLES
    parentFds,    \* parent's descriptor table: number -> open file
    pc,           \* parent's position in spawn_pty
    call,         \* number of the current (latest) spawn_pty call
    size,         \* the size argument of the current call, 0 = None
    pty,          \* local `pty`: number of the controlling side, -1 = unset
    pts,          \* local `pts`: number held by the subordinate File
    stdin,        \* local raw descriptors returned by setup_pty
    stdout,
    stderr,
    pt_fd,        \* numbers captured by the closure
    pts_fd,
    slots,        \* builder: the three stdio slots
    hooks,        \* builder: the registered pre-exec closures
    children,     \* live Child values: [pt, call]
    ptySize,      \* size of the current call's pty, 0 = default
    ptyOut,       \* what has been written to the current call's pty
    result,       \* what the current call returned
    resultErrno,  \* OS error carried by the returned error
    childStatus,  \* "none", "hooks", "ready", "exec", "aborted", "blocked",
                  \* and after the call: "running", "exited"
    childFds,     \* child's descriptor table
    childHooks,   \* the builder's closures as the child inherited them
    hookIdx,      \* closure the child is running
    stepIdx,      \* step of that closure
    childLeader,  \* child is a session leader
    childCtty,    \* child's controlling terminal
    childLock,    \* stdout lock was held by another thread at fork
    childErr,     \* OS error that aborted the child
    childTrace,   \* steps of the running closure that succeeded
    ranHooks,     \* calls whose closure has started in the current child
    openBefore,   \* numbers open in the parent when the call started
    slotsBefore,  \* builder state when the call started
    hooksBefore,
    dupCount,     \* successful dups of the current call
    dupLog,       \* descriptor each dup of the current call was made of
    spawnInvoked, \* spawn_impl was invoked by the current call
    forked,       \* a process was created by the current call
    lastOp        \* the last operation the caller made on a Child

vars == <<parentFds, pc, call, size, pty, pts, stdin, stdout, stderr, pt_fd,
          pts_fd, slots, hooks, children, ptySize, ptyOut, result,
          resultErrno, childStatus, childFds, childHooks, hookIdx, stepIdx, childLeader,
          childCtty, childLock, childErr, childTrace, ranHooks, openBefore,
          slotsBefore, hooksBefore, dupCount, dupLog, spawnInvoked, forked,
          lastOp>>

locals == <<pty, pts, stdin, stdout, stderr, pt_fd, pts_fd>>
builder == <<slots, hooks>>
childVars == <<childStatus, childFds, childHooks, hookIdx, stepIdx, childLeader,
               childCtty, childLock, childErr, childTrace, ranHooks>>
history == <<openBefore, slotsBefore, hooksBefore, lastOp>>

----------------------------------------------------------------------------
(* Descriptor tables *)

FdNums == 0 .. (NumFds - 1)
StdNums == {0, 1, 2}

NoFile == [kind |-> "none", call |-> 0]
UserFile == [kind |-> "user", call |-> 0]
Pt(k) == [kind |-> "pt", call |-> k]
Pts(k) == [kind |-> "pts", call |-> k]
OrigTty == [kind |-> "orig", call |-> 0]

IsOpen(tab, n) == n \in FdNums /\ tab[n] # NoFile
OpenSet(tab) == {n \in FdNums : tab[n] # NoFile}
HasFree(tab) == \E n \in FdNums : tab[n] = NoFile
\* open(), dup(): the lowest unused number
LowestFree(tab) ==
    CHOOSE n \in FdNums : tab[n] = NoFile /\ \A m \in FdNums : m < n => tab[m] # NoFile
CloseFd(tab, n) == IF n \in FdNums THEN [tab EXCEPT ![n] = NoFile] ELSE tab

\* Inherit: the builder's default stdio configuration
Inherit == -1
\* Taken: a slot whose descriptor the spawn has consumed
Taken == -2
Unset == -1
NoOp == [op |-> "none", call |-> 0, size |-> 0, ok |-> TRUE,
         delivered |-> FALSE]
\* Piped: a stdio configuration the caller gave the builder earlier
Piped == -3

----------------------------------------------------------------------------
Init ==
    /\ parentFds \in {t \in [FdNums -> {NoFile, UserFile}] :
                        \A n \in FdNums \ StdNums : t[n] = NoFile}
    /\ pc = "idle"
    /\ call = 0
    /\ size = 0
    /\ pty = Unset /\ pts = Unset
    /\ stdin = Unset /\ stdout = Unset /\ stderr = Unset
    /\ pt_fd = Unset /\ pts_fd = Unset
    /\ slots = <<Inherit, Inherit, Inherit>>
    /\ hooks = <<>>
    /\ children = {}
    /\ ptySize = 0
    /\ ptyOut = <<>>
    /\ result = "none"
    /\ resultErrno = "none"
    /\ childStatus = "none"
    /\ childFds = [n \in FdNums |-> NoFile]
    /\ childHooks = <<>>
    /\ hookIdx = 0
    /\ stepIdx = 0
    /\ childLeader = FALSE
    /\ childCtty = OrigTty
    /\ childLock = FALSE
    /\ childErr = "none"
    /\ childTrace = <<>>
    /\ ranHooks = <<>>
    /\ openBefore = {}
    /\ slotsBefore = <<Inherit, Inherit, Inherit>>
    /\ hooksBefore = <<>>
    /\ dupCount = 0
    /\ dupLog = <<>>
    /\ spawnInvoked = FALSE
    /\ forked = FALSE
    /\ lastOp = NoOp

----------------------------------------------------------------------------
(* Values with destructors.  `pty` (the Pty) and `pts` (a File) close their *)
(* descriptor when dropped; stdin/stdout/stderr are RawFd, plain integers   *)
(* that nothing closes when they go out of scope.                           *)

DropPtsLeak(tab, fd) == tab

\* drop of the local `pts` when spawn_pty or setup_pty returns
DropPts(tab, fd) == CloseFd(tab, fd)

DropPtyLeak(tab, fd) == tab

\* drop of the local `pty` when spawn_pty or setup_pty returns an error
DropPty(tab, fd) == CloseFd(tab, fd)

\* the `?` of a failed dup in setup_pty: the locals pty and pts are dropped
DupFailCleanup(tab) == DropPty(DropPts(tab, pts), pty)

\* the stdio descriptors the spawn consumes from the builder's slots
ConsumeStdio(tab, sl) ==
    [n \in FdNums |-> IF \E i \in 1..3 : sl[i] = n THEN NoFile ELSE tab[n]]

\* the child's table once the builder has made the slots its 0/1/2
InstallStdio(tab, sl) ==
    [n \in FdNums |->
        IF n \in StdNums /\ sl[n + 1] \in FdNums THEN tab[sl[n + 1]] ELSE tab[n]]

\* the order of the fallible steps of setup_pty, lines 176-188: the step
\* that follows step p
SetupNextResizeLast(p) ==
    CASE p = "new" -> "pts"
      [] p = "pts" -> "dup"
      [] p = "dup" -> IF size = 0 THEN "std_fds" ELSE "resize"
      [] p = "resize" -> "std_fds"

SetupNextNoResize(p) ==
    CASE p = "new" -> "pts"
      [] p = "resize" -> "pts"
      [] p = "pts" -> "dup"
      [] p = "dup" -> "std_fds"

SetupNext(p) ==
    CASE p = "new" -> IF size = 0 THEN "pts" ELSE "resize"
      [] p = "resize" -> "pts"
      [] p = "pts" -> "dup"
      [] p = "dup" -> "std_fds"

Idle == pc = "idle"

ResetChild ==
    /\ childStatus' = "none"
    /\ childFds' = [n \in FdNums |-> NoFile]
    /\ childHooks' = <<>>
    /\ hookIdx' = 0
    /\ stepIdx' = 0
    /\ childLeader' = FALSE
    /\ childCtty' = OrigTty
    /\ childLock' = FALSE
    /\ childErr' = "none"
    /\ childTrace' = <<>>
    /\ ranHooks' = <<>>

----------------------------------------------------------------------------
(* The parent: spawn_pty and setup_pty, one action per step *)

\* a caller invokes spawn_pty(size) on the builder
SpawnPtyCall ==
    /\ Idle
    /\ call < MaxCalls
    /\ \E sz \in 0..MaxSize : size' = sz
    /\ call' = call + 1
    /\ pc' = "new"
    /\ pty' = Unset /\ pts' = Unset
    /\ stdin' = Unset /\ stdout' = Unset /\ stderr' = Unset
    /\ pt_fd' = Unset /\ pts_fd' = Unset
    /\ ptySize' = 0
    /\ ptyOut' = <<>>
    /\ result' = "none"
    /\ resultErrno' = "none"
    /\ ResetChild
    /\ openBefore' = OpenSet(parentFds)
    /\ slotsBefore' = slots
    /\ hooksBefore' = hooks
    /\ dupCount' = 0
    /\ dupLog' = <<>>
    /\ spawnInvoked' = FALSE
    /\ forked' = FALSE
    /\ lastOp' = NoOp
    /\ UNCHANGED <<parentFds, slots, hooks, children>>

\* `let pty = P::new()?;`
PtyNew ==
    /\ pc = "new"
    /\ \/ /\ HasFree(parentFds)
          /\ pty' = LowestFree(parentFds)
          /\ parentFds' = [parentFds EXCEPT ![LowestFree(parentFds)] = Pt(call)]
          /\ pc' = SetupNext("new")
          /\ UNCHANGED <<result, resultErrno>>
       \/ /\ result' = "Pty"
          /\ resultErrno' = "ENFILE"
          /\ pc' = "done"
          /\ UNCHANGED <<parentFds, pty>>
    /\ UNCHANGED <<call, size, pts, stdin, stdout, stderr, pt_fd, pts_fd,
                   builder, children, ptySize, ptyOut, childVars, history,
                   dupCount, dupLog, spawnInvoked, forked>>

\* `if let Some(size) = size { pty.resize(size)?; }`
PtyResize ==
    /\ pc = "resize"
    /\ \/ /\ ptySize' = size
          /\ pc' = SetupNext("resize")
          /\ UNCHANGED <<parentFds, result, resultErrno>>
       \/ /\ result' = "Resize"
          /\ resultErrno' = "EINVAL"
          /\ parentFds' = DropPty(parentFds, pty)
          /\ pc' = "done"
          /\ UNCHANGED ptySize
    /\ UNCHANGED <<call, size, locals, builder, children, ptyOut, childVars,
                   history, dupCount, dupLog, spawnInvoked, forked>>

\* `let pts = pty.pts()?; let pts_fd = pts.as_raw_fd();`
PtyPts ==
    /\ pc = "pts"
    /\ \/ /\ HasFree(parentFds)
          /\ pts' = LowestFree(parentFds)
          /\ parentFds' = [parentFds EXCEPT ![LowestFree(parentFds)] = Pts(call)]
          /\ pc' = SetupNext("pts")
          /\ UNCHANGED <<result, resultErrno>>
       \/ /\ result' = "Pts"
          /\ resultErrno' = "ENFILE"
          /\ parentFds' = DropPty(parentFds, pty)
          /\ pc' = "done"
          /\ UNCHANGED pts
    /\ UNCHANGED <<call, size, pty, stdin, stdout, stderr, pt_fd, pts_fd,
                   builder, children, ptySize, ptyOut, childVars, history,
                   dupCount, dupLog, spawnInvoked, forked>>

DupSourcePt(i) == IF i = 1 THEN pty ELSE pts

\* the descriptor setup_pty duplicates for slot i (1 = stdin, 2, 3)
DupSource(i) == pts

SetupOkDropsPts(tab) == CloseFd(tab, pts)

\* `Ok((pty, pts, stdin, stdout, stderr))`: pty and pts are moved to the
\* caller, nothing is dropped
SetupOk(tab) == tab

\* one `nix::unistd::dup(pts_fd).map_err(Error::SpawnNix)?`; the third one
\* is followed by `Ok((pty, pts, stdin, stdout, stderr))`
Dup ==
    /\ pc = "dup"
    /\ \/ /\ HasFree(parentFds)
          /\ LET n == LowestFree(parentFds)
                 src == DupSource(dupCount + 1)
                 dupd == [parentFds EXCEPT ![n] = parentFds[src]]
             IN /\ parentFds' = IF dupCount = 2 THEN SetupOk(dupd) ELSE dupd
                /\ dupLog' = Append(dupLog, src)
                /\ stdin' = IF dupCount = 0 THEN n ELSE stdin
                /\ stdout' = IF dupCount = 1 THEN n ELSE stdout
                /\ stderr' = IF dupCount = 2 THEN n ELSE stderr
          /\ dupCount' = dupCount + 1
          /\ pc' = IF dupCount = 2 THEN SetupNext("dup") ELSE "dup"
          /\ UNCHANGED <<result, resultErrno>>
       \/ /\ result' = "SpawnNix"
          /\ resultErrno' = "EMFILE"
          /\ parentFds' = DupFailCleanup(parentFds)
          /\ pc' = "done"
          /\ UNCHANGED <<stdin, stdout, stderr, dupCount, dupLog>>
    /\ UNCHANGED <<call, size, pty, pts, pt_fd, pts_fd, builder, children,
                   ptySize, ptyOut, childVars, history, spawnInvoked, forked>>

StdFdsKeepsConfigured ==
    [i \in 1..3 |-> IF slots[i] = Piped THEN Piped
                                        ELSE <<stdin, stdout, stderr>>[i]]

\* the builder's slots after `self.std_fds(stdin, stdout, stderr)`
StdFdsSlots == <<stdin, stdout, stderr>>

\* `let pt_fd = pty.pt().as_raw_fd(); let pts_fd = pts.as_raw_fd();`
\* `self.std_fds(stdin, stdout, stderr);`
StdFds ==
    /\ pc = "std_fds"
    /\ pt_fd' = pty
    /\ pts_fd' = pts
    /\ slots' = StdFdsSlots
    /\ pc' = "pre_exec"
    /\ UNCHANGED <<parentFds, call, size, pty, pts, stdin, stdout, stderr,
                   hooks, children, ptySize, ptyOut, result, resultErrno,
                   childVars, history, dupCount, dupLog, spawnInvoked, forked>>

\* the closure `move || { ... }`: the numbers it captures by value
Closure ==
    [pt_fd |-> pt_fd, pts_fd |-> pts_fd, stdin |-> stdin, stdout |-> stdout,
     stderr |-> stderr, call |-> call]

\* what registering closure f does to the builder's closures
Register(hs, f) == Append(hs, f)

\* `unsafe { self.pre_exec_impl(pre_exec) };`
PreExecImpl ==
    /\ pc = "pre_exec"
    /\ hooks' = Register(hooks, Closure)
    /\ pc' = "spawn"
    /\ UNCHANGED <<parentFds, call, size, locals, slots, children, ptySize,
                   ptyOut, result, resultErrno, childVars, history, dupCount,
                   dupLog, spawnInvoked, forked>>

----------------------------------------------------------------------------
(* The closure body, lines 55-80, as the sequence of operations it issues.  *)
(* arg names the captured number an operation is applied to.                *)

HookStepsCloseFirst ==
    << [op |-> "println", arg |-> "Started pre-exec"],
       [op |-> "setsid",  arg |-> "none"],
       [op |-> "println", arg |-> "Closing old fds"],
       [op |-> "close",   arg |-> "pt_fd"],
       [op |-> "ioctl",   arg |-> "pts_fd"],
       [op |-> "close",   arg |-> "pts_fd"],
       [op |-> "close",   arg |-> "stdin"],
       [op |-> "close",   arg |-> "stdout"],
       [op |-> "close",   arg |-> "stderr"],
       [op |-> "println", arg |-> "Closed old fds"] >>

HookStepsNoCloseStdin ==
    << [op |-> "println", arg |-> "Started pre-exec"],
       [op |-> "setsid",  arg |-> "none"],
       [op |-> "ioctl",   arg |-> "pts_fd"],
       [op |-> "println", arg |-> "Closing old fds"],
       [op |-> "close",   arg |-> "pt_fd"],
       [op |-> "close",   arg |-> "pts_fd"],
       [op |-> "close",   arg |-> "stdout"],
       [op |-> "close",   arg |-> "stderr"],
       [op |-> "println", arg |-> "Closed old fds"] >>

HookStepsDoubleClose ==
    << [op |-> "println", arg |-> "Started pre-exec"],
       [op |-> "setsid",  arg |-> "none"],
       [op |-> "ioctl",   arg |-> "pts_fd"],
       [op |-> "println", arg |-> "Closing old fds"],
       [op |-> "close",   arg |-> "pt_fd"],
       [op |-> "close",   arg |-> "pts_fd"],
       [op |-> "close",   arg |-> "pts_fd"],
       [op |-> "close",   arg |-> "stdout"],
       [op |-> "close",   arg |-> "stderr"],
       [op |-> "println", arg |-> "Closed old fds"] >>

HookStepsNoCtty ==
    << [op |-> "println", arg |-> "Started pre-exec"],
       [op |-> "setsid",  arg |-> "none"],
       [op |-> "println", arg |-> "Closing old fds"],
       [op |-> "close",   arg |-> "pt_fd"],
       [op |-> "close",   arg |-> "pts_fd"],
       [op |-> "close",   arg |-> "stdin"],
       [op |-> "close",   arg |-> "stdout"],
       [op |-> "close",   arg |-> "stderr"],
       [op |-> "println", arg |-> "Closed old fds"] >>

HookSteps ==
    << [op |-> "println", arg |-> "Started pre-exec"],
       [op |-> "setsid",  arg |-> "none"],
       [op |-> "ioctl",   arg |-> "pts_fd"],
       [op |-> "println", arg |-> "Closing old fds"],
       [op |-> "close",   arg |-> "pt_fd"],
       [op |-> "close",   arg |-> "pts_fd"],
       [op |-> "close",   arg |-> "stdin"],
       [op |-> "close",   arg |-> "stdout"],
       [op |-> "close",   arg |-> "stderr"],
       [op |-> "println", arg |-> "Closed old fds"] >>

OnStepErrorIgnored(e) ==
    /\ stepIdx' = stepIdx + 1
    /\ childErr' = e
    /\ UNCHANGED <<childStatus, childTrace>>

\* what the closure does when an operation returns Err: `?` returns it
OnStepError(e) ==
    /\ childStatus' = "aborted"
    /\ childErr' = e
    /\ UNCHANGED <<stepIdx, childTrace>>

InHook == childStatus = "hooks" /\ stepIdx \in 1..Len(HookSteps)
CurHook == childHooks[hookIdx]
CurStep == HookSteps[stepIdx]
CurFd == CurHook[CurStep.arg]

StepOk(fd) ==
    /\ stepIdx' = stepIdx + 1
    /\ childTrace' = Append(childTrace, [op |-> CurStep.op, fd |-> fd])
    /\ UNCHANGED <<childStatus, childErr>>

\* parent's descriptors after `self.spawn_impl().map_err(Error::Spawn)?`
\* returned the error: pts and pty are dropped
SpawnErrFds(tab) == DropPty(DropPts(ConsumeStdio(tab, slots), pts), pty)

SpawnOkFdsDropsPty(tab) == DropPty(DropPts(ConsumeStdio(tab, slots), pts), pty)

\* parent's descriptors after `Ok(Child { child, pty })`: pts is dropped,
\* pty moves into the Child
SpawnOkFds(tab) == DropPts(ConsumeStdio(tab, slots), pts)

\* `self.spawn_impl()`: the process is created (or creation fails)
SpawnImplFork ==
    /\ pc = "spawn"
    /\ spawnInvoked' = TRUE
    /\ \/ /\ forked' = TRUE
          /\ pc' = "wait"
          /\ childStatus' = "hooks"
          /\ childFds' = InstallStdio(parentFds, slots)
          /\ childHooks' = hooks
          /\ hookIdx' = 1
          /\ stepIdx' = 1
          /\ childLeader' = FALSE
          /\ childCtty' = OrigTty
          /\ childLock' \in BOOLEAN
          /\ childErr' = "none"
          /\ childTrace' = <<>>
          /\ ranHooks' = <<hooks[1].call>>
          /\ UNCHANGED <<parentFds, slots, result, resultErrno>>
       \/ /\ result' = "Spawn"
          /\ resultErrno' = "EAGAIN"
          /\ parentFds' = SpawnErrFds(parentFds)
          /\ slots' = <<Taken, Taken, Taken>>
          /\ pc' = "done"
          /\ UNCHANGED <<forked, childVars>>
    /\ UNCHANGED <<call, size, locals, hooks, children, ptySize, ptyOut,
                   history, dupCount, dupLog>>

\* `println!(...)` in the closure: takes the stdout lock, writes to fd 1
ChildPrintln ==
    /\ InHook
    /\ CurStep.op = "println"
    /\ IF childLock
       THEN /\ childStatus' = "blocked"
            /\ UNCHANGED <<stepIdx, childTrace, childErr, ptyOut>>
       ELSE /\ StepOk(1)
            /\ ptyOut' = IF childFds[1] = Pts(call)
                         THEN Append(ptyOut, CurStep.arg) ELSE ptyOut
    /\ UNCHANGED <<childHooks, parentFds, pc, call, size, locals, builder, children,
                   ptySize, result, resultErrno, childFds, hookIdx,
                   childLeader, childCtty, childLock, ranHooks, history,
                   dupCount, dupLog, spawnInvoked, forked>>

\* `nix::unistd::setsid().map_err(...)?`
ChildSetsid ==
    /\ InHook
    /\ CurStep.op = "setsid"
    /\ \E fault \in BOOLEAN :
        IF childLeader \/ fault
        THEN /\ OnStepError("EPERM")
             /\ UNCHANGED <<childLeader, childCtty>>
        ELSE /\ StepOk(-1)
             /\ childLeader' = TRUE
             /\ childCtty' = NoFile
    /\ UNCHANGED <<childHooks, parentFds, pc, call, size, locals, builder, children,
                   ptySize, ptyOut, result, resultErrno, childFds, hookIdx,
                   childLock, ranHooks, history, dupCount, dupLog,
                   spawnInvoked, forked>>

\* `set_controlling_terminal(pts_fd).map_err(...)?`: ioctl(fd, TIOCSCTTY)
ChildIoctl ==
    /\ InHook
    /\ CurStep.op = "ioctl"
    /\ \E fault \in BOOLEAN :
        LET fd == CurFd IN
        IF ~IsOpen(childFds, fd)
        THEN OnStepError("EBADF") /\ UNCHANGED childCtty
        ELSE IF childFds[fd].kind \notin {"pt", "pts"}
        THEN OnStepError("ENOTTY") /\ UNCHANGED childCtty
        ELSE IF ~childLeader \/ childCtty # NoFile
        THEN OnStepError("EPERM") /\ UNCHANGED childCtty
        ELSE IF fault
        THEN OnStepError("EIO") /\ UNCHANGED childCtty
        ELSE /\ StepOk(fd)
             /\ childCtty' = Pts(childFds[fd].call)
    /\ UNCHANGED <<childHooks, parentFds, pc, call, size, locals, builder, children,
                   ptySize, ptyOut, result, resultErrno, childFds, hookIdx,
                   childLeader, childLock, ranHooks, history, dupCount,
                   dupLog, spawnInvoked, forked>>

\* `nix::unistd::close(fd).map_err(...)?`
ChildClose ==
    /\ InHook
    /\ CurStep.op = "close"
    /\ \E fault \in BOOLEAN :
        LET fd == CurFd IN
        IF ~IsOpen(childFds, fd)
        THEN OnStepError("EBADF") /\ UNCHANGED childFds
        ELSE IF fault
        THEN OnStepError("EIO") /\ UNCHANGED childFds
        ELSE /\ StepOk(fd)
             /\ childFds' = CloseFd(childFds, fd)
    /\ UNCHANGED <<childHooks, parentFds, pc, call, size, locals, builder, children,
                   ptySize, ptyOut, result, resultErrno, hookIdx,
                   childLeader, childCtty, childLock, ranHooks, history,
                   dupCount, dupLog, spawnInvoked, forked>>

\* `Ok(())`: the closure returns; the next registered closure runs, if any
ChildHookDone ==
    /\ childStatus = "hooks"
    /\ stepIdx = Len(HookSteps) + 1
    /\ IF hookIdx < Len(childHooks)
       THEN /\ hookIdx' = hookIdx + 1
            /\ stepIdx' = 1
            /\ childTrace' = <<>>
            /\ ranHooks' = Append(ranHooks, childHooks[hookIdx + 1].call)
            /\ UNCHANGED childStatus
       ELSE /\ childStatus' = "ready"
            /\ UNCHANGED <<hookIdx, stepIdx, childTrace, ranHooks>>
    /\ UNCHANGED <<childHooks, parentFds, pc, call, size, locals, builder, children,
                   ptySize, ptyOut, result, resultErrno, childFds,
                   childLeader, childCtty, childLock, childErr, history,
                   dupCount, dupLog, spawnInvoked, forked>>

\* the child executes the target program (or exec fails)
ChildExec ==
    /\ childStatus = "ready"
    /\ \/ /\ childStatus' = "exec"
          /\ UNCHANGED childErr
       \/ /\ childStatus' = "aborted"
          /\ childErr' = "ENOENT"
    /\ UNCHANGED <<childHooks, parentFds, pc, call, size, locals, builder, children,
                   ptySize, ptyOut, result, resultErrno, childFds, hookIdx,
                   stepIdx, childLeader, childCtty, childLock, childTrace,
                   ranHooks, history, dupCount, dupLog, spawnInvoked, forked>>

\* spawn_impl returns to spawn_pty, which returns
SpawnImplReturn ==
    /\ pc = "wait"
    /\ childStatus \in {"exec", "aborted"}
    /\ IF childStatus = "exec"
       THEN /\ result' = "Ok"
            /\ resultErrno' = "none"
            /\ parentFds' = SpawnOkFds(parentFds)
            /\ children' = children \cup {[pt |-> pty, call |-> call]}
       ELSE /\ result' = "Spawn"
            /\ resultErrno' = childErr
            /\ parentFds' = SpawnErrFds(parentFds)
            /\ UNCHANGED children
    /\ slots' = <<Taken, Taken, Taken>>
    /\ pc' = "done"
    /\ UNCHANGED <<call, size, locals, hooks, ptySize, ptyOut, childVars,
                   history, dupCount, dupLog, spawnInvoked, forked>>

----------------------------------------------------------------------------
(* The caller, between spawn_pty calls *)

\* spawn_pty has returned and the caller goes on: the call's locals are gone,
\* and of its child only the running program and its terminal matter from
\* here
CallerResumes ==
    /\ pc = "done"
    /\ pc' = "idle"
    /\ size' = 0
    /\ pty' = Unset /\ pts' = Unset
    /\ stdin' = Unset /\ stdout' = Unset /\ stderr' = Unset
    /\ pt_fd' = Unset /\ pts_fd' = Unset
    /\ ptyOut' = <<>>
    /\ result' = "none"
    /\ resultErrno' = "none"
    /\ childStatus' = IF childStatus = "exec" THEN "running" ELSE "none"
    /\ childFds' = [n \in FdNums |-> NoFile]
    /\ childHooks' = <<>>
    /\ hookIdx' = 0
    /\ stepIdx' = 0
    /\ childLeader' = (childStatus = "exec" /\ childLeader)
    /\ childCtty' = IF childStatus = "exec" THEN childCtty ELSE OrigTty
    /\ childLock' = FALSE
    /\ childErr' = "none"
    /\ childTrace' = <<>>
    /\ ranHooks' = <<>>
    /\ openBefore' = {}
    /\ slotsBefore' = <<Inherit, Inherit, Inherit>>
    /\ hooksBefore' = <<>>
    /\ dupCount' = 0
    /\ dupLog' = <<>>
    /\ spawnInvoked' = FALSE
    /\ forked' = FALSE
    /\ UNCHANGED <<parentFds, call, builder, children, ptySize, lastOp>>

\* a Child is dropped: its pty closes the controlling side
DropChild ==
    /\ Idle
    /\ \E c \in children :
        /\ children' = children \ {c}
        /\ parentFds' = CloseFd(parentFds, c.pt)
    /\ pc' = "idle"
    /\ UNCHANGED <<call, size, locals, builder, ptySize, ptyOut, result,
                   resultErrno, childVars, history, dupCount, dupLog,
                   spawnInvoked, forked>>

\* the caller goes on with a fresh builder
NewBuilder ==
    /\ Idle
    /\ hooks # <<>>
    /\ hooks' = <<>>
    /\ slots' = <<Inherit, Inherit, Inherit>>
    /\ pc' = "idle"
    /\ UNCHANGED <<parentFds, call, size, locals, children, ptySize, ptyOut,
                   result, resultErrno, childVars, history, dupCount, dupLog,
                   spawnInvoked, forked>>

\* `pty()` and `pty_mut()`: a reference to the Child's controlling side;
\* nothing changes
ChildPty ==
    /\ Idle
    /\ children # {}
    /\ UNCHANGED vars

ResizePtyIgnored(c, sz) == [call |-> c.call, size |-> ptySize]

\* `self.pty.resize(size)` in resize_pty: the pty and the size forwarded
ResizePtyForward(c, sz) == [call |-> c.call, size |-> sz]

\* the pty's resize: sets the size; the OS notifies the foreground process
\* group of the terminal of the window change
PtyResized(req, foreground) == [size |-> req.size, winch |-> foreground]

\* `resize_pty(size)` on a Child.  The model keeps the size of the latest
\* call's pty only: a resize of an older Child's pty changes nothing here.
ChildResizePty ==
    /\ Idle
    /\ \E c \in children, sz \in 1..MaxSize, ok \in BOOLEAN :
        LET req == ResizePtyForward(c, sz)
            eff == PtyResized(req, /\ childStatus = "running"
                                   /\ childLeader
                                   /\ childCtty = Pts(req.call))
        IN IF req.call = call
           THEN /\ ptySize' = IF ok THEN eff.size ELSE ptySize
                /\ lastOp' = [op |-> "resize_pty", call |-> c.call,
                              size |-> sz, ok |-> ok,
                              delivered |-> ok /\ eff.winch]
           ELSE UNCHANGED <<ptySize, lastOp>>
    /\ UNCHANGED <<parentFds, pc, call, size, locals, builder, children,
                   ptyOut, result, resultErrno, childVars, openBefore,
                   slotsBefore, hooksBefore, dupCount, dupLog, spawnInvoked,
                   forked>>

\* Deref/DerefMut: the operations of the process handle (wait, kill,
\* status).  After a kill the process is no longer running; the model keeps
\* this for the latest call's process only.
ChildProcessOp ==
    /\ Idle
    /\ \E c \in children, o \in {"kill", "status"} :
        childStatus' = IF c.call = call /\ childStatus = "running" /\ o = "kill"
                       THEN "exited" ELSE childStatus
    /\ UNCHANGED <<parentFds, pc, call, size, locals, builder, children,
                   ptySize, ptyOut, result, resultErrno, childFds, childHooks,
                   hookIdx, stepIdx, childLeader, childCtty, childLock,
                   childErr, childTrace, ranHooks, history, dupCount, dupLog,
                   spawnInvoked, forked>>

\* the caller closes one of the descriptors it had open
UserClose ==
    /\ Idle
    /\ \E n \in FdNums :
        /\ parentFds[n] = UserFile
        /\ parentFds' = CloseFd(parentFds, n)
    /\ pc' = "idle"
    /\ UNCHANGED <<call, size, locals, builder, children, ptySize, ptyOut,
                   result, resultErrno, childVars, history, dupCount, dupLog,
                   spawnInvoked, forked>>

\* the caller configures the builder's stdin, stdout and stderr
BuilderStdio ==
    /\ Idle
    /\ slots # <<Piped, Piped, Piped>>
    /\ slots' = <<Piped, Piped, Piped>>
    /\ pc' = "idle"
    /\ UNCHANGED <<parentFds, call, size, locals, hooks, children, ptySize,
                   ptyOut, result, resultErrno, childVars, history, dupCount,
                   dupLog, spawnInvoked, forked>>

Next ==
    \/ SpawnPtyCall
    \/ PtyNew
    \/ PtyResize
    \/ PtyPts
    \/ Dup
    \/ StdFds
    \/ PreExecImpl
    \/ SpawnImplFork
    \/ ChildPrintln
    \/ ChildSetsid
    \/ ChildIoctl
    \/ ChildClose
    \/ ChildHookDone
    \/ ChildExec
    \/ SpawnImplReturn
    \/ CallerResumes
    \/ DropChild
    \/ NewBuilder
    \/ BuilderStdio
    \/ UserClose
    \/ ChildPty
    \/ ChildResizePty
    \/ ChildProcessOp

Spec == Init /\ [][Next]_vars

----------------------------------------------------------------------------
(* Properties *)

IsSyscall(s) == s.op # "println"
\* the system calls the running closure has completed, in order
SyscallTrace == SelectSeq(childTrace, IsSyscall)

\* the system calls of one run of closure h
HookSyscalls(h) ==
    << [op |-> "setsid", fd |-> -1],
       [op |-> "ioctl",  fd |-> h.pts_fd],
       [op |-> "close",  fd |-> h.pt_fd],
       [op |-> "close",  fd |-> h.pts_fd],
       [op |-> "close",  fd |-> h.stdin],
       [op |-> "close",  fd |-> h.stdout],
       [op |-> "close",  fd |-> h.stderr] >>

IsPrefix(a, b) == Len(a) <= Len(b) /\ SubSeq(b, 1, Len(a)) = a

\* a step of a closure has returned an error in the current child
HookStepFailed == childErr \notin {"none", "ENOENT"}

\* C1: when the child reaches exec, its descriptors 0, 1 and 2 are open and
\* are the subordinate side of the pty of this call, whatever numbers were
\* free in the parent.
C1_ChildStdioIsSubordinate ==
    childStatus = "exec" => \A n \in StdNums : childFds[n] = Pts(call)

\* C2: the closure issues setsid, TIOCSCTTY on the subordinate descriptor,
\* close of the controlling descriptor, of the subordinate descriptor and of
\* the three duplicates, in this order, each after the previous one
\* succeeded, and exec happens only after the last close succeeded.
C2_HookOrder ==
    /\ childStatus \in {"hooks", "ready", "exec", "aborted", "blocked"} =>
          IsPrefix(SyscallTrace, HookSyscalls(CurHook))
    /\ childStatus \in {"ready", "exec"} =>
          /\ hookIdx = Len(childHooks)
          /\ CurHook.call = call
          /\ SyscallTrace = HookSyscalls(CurHook)

C2_Witness ==
    /\ childStatus = "exec"
    /\ Len(SyscallTrace) = 7
    /\ SyscallTrace[7] = [op |-> "close", fd |-> stderr]

\* C3: whenever the child executes the target program it is a session leader
\* whose controlling terminal is the subordinate side of this call's pty.
C3_SessionLeaderWithPty ==
    childStatus = "exec" => childLeader /\ childCtty = Pts(call)

C3_Witness == childStatus = "exec" /\ childLeader /\ childCtty = Pts(call)

\* C4: after spawn_pty returns Ok the parent's open descriptors are those
\* open before the call plus the controlling side held by the new Child; the
\* subordinate handle and the three duplicates are closed.
C4_ParentFdsAfterOk ==
    (pc = "done" /\ result = "Ok") =>
        /\ pty \notin openBefore
        /\ OpenSet(parentFds) = openBefore \cup {pty}
        /\ parentFds[pty] = Pt(call)
        /\ [pt |-> pty, call |-> call] \in children
        /\ \A n \in {pts, stdin, stdout, stderr} : ~IsOpen(parentFds, n)

C4_Witness ==
    pc = "done" /\ result = "Ok" /\ OpenSet(parentFds) = openBefore \cup {pty}

\* C5: if the second or third dup fails, everything the call created is
\* closed again: the parent's open descriptors equal those before the call.
C5_DupFailureReleasesAll ==
    (pc = "done" /\ result = "SpawnNix" /\ dupCount >= 1) =>
        OpenSet(parentFds) = openBefore

\* C6: when spawn_impl fails, spawn_pty returns Error::Spawn, no Child is
\* produced and the duplicates, the subordinate handle and the controlling
\* side are closed in the parent.
C6_SpawnFailureReleasesAll ==
    (pc = "done" /\ spawnInvoked /\ result # "Ok") =>
        /\ result = "Spawn"
        /\ \A c \in children : c.call # call
        /\ \A n \in {pty, pts, stdin, stdout, stderr} : ~IsOpen(parentFds, n)
        /\ OpenSet(parentFds) = openBefore

C6_Witness ==
    /\ pc = "done" /\ result = "Spawn" /\ ~forked
    /\ OpenSet(parentFds) = openBefore

\* C7: once a step of the closure has failed, the child performs no further
\* step and never executes the target program, and spawn_pty returns
\* Error::Spawn carrying that error, without a Child.
C7_HookFailureAborts ==
    [][(HookStepFailed /\ pc' # "idle") =>
          /\ childStatus = "aborted"
          /\ childVars' = childVars
          /\ pc' = "done" =>
                /\ result' = "Spawn"
                /\ resultErrno' = childErr
                /\ \A c \in children' : c.call # call]_vars

C7_Witness ==
    /\ pc = "done" /\ HookStepFailed /\ childStatus = "aborted"
    /\ result = "Spawn" /\ resultErrno = "EIO"
    /\ Len(SyscallTrace) = 3

\* C8: if pty creation or the resize fails, spawn_pty returns that error,
\* and the call has duplicated nothing, left the builder's stdio slots and
\* closures as they were, not invoked spawn_impl and created no process.
C8_EarlyFailureTouchesNothing ==
    (pc = "done" /\ result \in {"Pty", "Resize"}) =>
        /\ dupCount = 0
        /\ slots = slotsBefore
        /\ hooks = hooksBefore
        /\ ~spawnInvoked
        /\ ~forked
        /\ childStatus = "none"
        /\ (result = "Resize") = (pty # Unset)

C8_Witness ==
    pc = "done" /\ result = "Resize" /\ dupCount = 0 /\ hooks # <<>>

\* C9: in the child of a spawn_pty call only the closure built by that call
\* runs, once, however many spawn_pty calls the builder has seen.
C9_OnlyOwnHookRuns ==
    forked => ranHooks = <<call>>

\* C10: the closure takes no lock and the child never blocks forever on a
\* lock held by another thread of the parent at fork.
C10_HookNeverBlocks == childStatus # "blocked"

\* the five numbers closure h closes
HookFds(h) == {h.pt_fd, h.pts_fd, h.stdin, h.stdout, h.stderr}

IsClose(s) == s.op = "close"
\* the closes the running closure has completed, in order
CloseTrace == SelectSeq(childTrace, IsClose)

C12_SizeSetBeforeSpawn ==
    pc \in {"spawn", "wait"} => ptySize = size

C12_Witness ==
    pc = "wait" /\ childStatus = "exec" /\ size # 0 /\ ptySize = size

\* C13: the spawn sequence writes nothing to the pty: when the target
\* program starts, nothing is readable from the controlling side yet.
C13_NothingWrittenBeforeExec ==
    childStatus = "exec" => ptyOut = <<>>

\* C14: when spawn_impl is invoked the builder's three stdio slots hold the
\* three duplicates this call made, whatever the caller configured before
\* and whatever earlier spawn_pty calls left there.
C14_SlotsAreThisCallsDups ==
    pc = "spawn" =>
        /\ slots = <<stdin, stdout, stderr>>
        /\ \A i \in 1..3 : slots[i] \in FdNums /\ parentFds[slots[i]] = Pts(call)

C14_Witness ==
    /\ pc = "spawn"
    /\ slotsBefore = <<Piped, Piped, Piped>>
    /\ slots = <<stdin, stdout, stderr>>

\* C15: a call makes at most three dups, each of the subordinate-side
\* descriptor, and exactly three once setup has succeeded, with or without a
\* size; the duplicates differ from each other and from the controlling and
\* the subordinate descriptor.
C15_ThreeDupsOfSubordinate ==
    /\ dupCount <= 3
    /\ Len(dupLog) = dupCount
    /\ \A i \in 1..Len(dupLog) : dupLog[i] = pts
    /\ (pc \in {"std_fds", "pre_exec", "spawn", "wait"} \/ spawnInvoked) =>
          /\ dupCount = 3
          /\ Cardinality({pty, pts, stdin, stdout, stderr}) = 5
    /\ pc \in {"std_fds", "pre_exec", "spawn", "wait"} =>
          \A n \in {stdin, stdout, stderr} : parentFds[n] = Pts(call)

C15_Witness == pc = "spawn" /\ dupCount = 3 /\ size # 0

\* C18: from before the closure is registered until spawn_impl has returned
\* the subordinate handle is open in the parent; at fork the captured pt_fd
\* and pts_fd and the three duplicates are open and denote this call's pty.
C18_CapturedFdsLiveAtFork ==
    pc \in {"pre_exec", "spawn", "wait"} =>
        /\ pt_fd = pty /\ pts_fd = pts
        /\ parentFds[pts] = Pts(call)
        /\ parentFds[pt_fd] = Pt(call)
        /\ parentFds[pts_fd] = Pts(call)
        /\ \A n \in {stdin, stdout, stderr} : parentFds[n] = Pts(call)
        /\ pc \in {"spawn", "wait"} => hooks[Len(hooks)] = Closure

C18_Witness ==
    /\ pc = "wait" /\ forked
    /\ parentFds[pt_fd] = Pt(call)
    /\ parentFds[pts_fd] = Pts(call)
    /\ childHooks[Len(childHooks)] = Closure

Distinct(q) == \A i, j \in 1..Len(q) : i # j => q[i] # q[j]

\* C19: in a run of the closure the five numbers closed are pairwise
\* distinct and each is open when its close is issued: no close fails with
\* EBADF.
C19_NoDoubleClose ==
    /\ \A i \in 1..Len(childHooks) : Cardinality(HookFds(childHooks[i])) = 5
    /\ Distinct(CloseTrace)
    /\ childErr # "EBADF"

C19_Witness ==
    childStatus = "exec" /\ Len(CloseTrace) = 5 /\ Distinct(CloseTrace)

\* C20: whatever spawn_pty returns, every descriptor the call created is
\* then either the controlling side owned by the returned Child (on Ok
\* only) or closed.
C20_AtomicOwnership ==
    pc = "done" =>
        OpenSet(parentFds) \ openBefore
            \subseteq (IF result = "Ok" THEN {pty} ELSE {})

\* C16: the controlling side a Child owns stays open and is the same
\* descriptor for as long as the Child lives, whatever pty(), pty_mut(),
\* resize_pty() and process operations are made and whatever else the
\* program does; dropping the Child closes it.
C16_ChildKeepsControllingSide ==
    [][/\ \A c \in children' : parentFds'[c.pt] = Pt(c.call)
       /\ \A c \in children \ children' : ~IsOpen(parentFds', c.pt)]_vars

C16_Witness ==
    /\ pc = "idle"
    /\ lastOp.op = "resize_pty" /\ lastOp.ok
    /\ childStatus = "exited"
    /\ \E c \in children : c.call = lastOp.call /\ parentFds[c.pt] = Pt(c.call)

\* C17: a successful resize_pty(size) on the Child of a running process sets
\* the pty to that size and the process is notified of the window change; a
\* failed one leaves the size as it was.
C17_ResizeNotifies ==
    [][(lastOp' # lastOp /\ lastOp'.op = "resize_pty" /\ lastOp'.call = call) =>
          IF lastOp'.ok
          THEN /\ ptySize' = lastOp'.size
               /\ childStatus = "running" => lastOp'.delivered
          ELSE /\ ptySize' = ptySize
               /\ ~lastOp'.delivered]_vars

C17_Witness ==
    /\ lastOp.op = "resize_pty" /\ lastOp.call = call
    /\ lastOp.ok /\ lastOp.delivered
    /\ ptySize = lastOp.size /\ childStatus = "running"

====
